---- MODULE Spec2Model ----
(***************************************************************************)
(* A model of the persona chat application (src/Main.py, the variant       *)
(* without conversational memory, and src/Main2.py, the variant that folds *)
(* a user's stored turns into every prompt).                               *)
(*                                                                         *)
(* The store is the two tables of the SQLAlchemy models: `characters` and  *)
(* `conversations`, each a sequence of rows in insertion order, so that a  *)
(* row's position is its autoincrement primary key.  Python's None and     *)
(* SQL's NULL are the empty tuple; a present value v is <<v>>.  Texts are  *)
(* strings, built with \o exactly as the f-strings build them.             *)
(***************************************************************************)
EXTENDS Integers, Sequences, FiniteSets, TLC

VARIABLES
    variant,        \* which program runs: "Main" (src/Main.py) or "Main2" (src/Main2.py)
    characters,     \* table character: rows [id, name, description, prompt_template]
    conversations,  \* table conversation: rows [id, character_id, user_input, bot_response, timestamp, chat_id, user_id]
    now,            \* datetime.utcnow() as the last insert read it, in clock ticks
    uuids,          \* how many uuid4() values have been drawn
    workers,        \* the concurrent add_character calls: where each stands, and its locals
    seeder,         \* a concurrent add_predefined_characters call: its position and its pending session
    current_chat_id,  \* src/Main.py's gr.State(value=None): the chat id the page holds
    lastCall        \* the operation the last step performed, its arguments and what it returned

vars == <<variant, characters, conversations, now, uuids, workers, seeder, current_chat_id, lastCall>>

(***************************************************************************)
(* Bounds of the model.                                                    *)
(***************************************************************************)
MaxTurns == 2       \* rows the conversation table may hold
MaxUuids == 2       \* uuid4() draws
NumWorkers == 2     \* concurrent add_character calls

(***************************************************************************)
(* Values                                                                  *)
(***************************************************************************)
None == <<>>
Some(v) == <<v>>

\* Python's truth value of an optional string: None and "" are false.
Truthy(opt) == opt # None /\ opt # Some("")

\* The ticks of the clock one second holds; strftime("%Y-%m-%d %H:%M:%S")
\* prints whole seconds and drops the rest.
TicksPerSecond == 2

strftime(t) == "T+" \o ToString(t \div TicksPerSecond) \o "s"

\* datetime.utcnow() at an insert, given the reading of the insert before it.
\* Calls are served one at a time and each spends a round trip to the
\* endpoint before it stores its turn, so the clock has moved on by then.
utcnow(last) == last + 1

\* str(uuid.uuid4()): a value never drawn before.
uuid4(n) == "uuid-" \o ToString(n)

(***************************************************************************)
(* The predefined characters of add_predefined_characters.                 *)
(***************************************************************************)
PredefinedCharacters ==
    << [name |-> "Chuck the Clown",
        description |-> "A funny clown who tells jokes and entertains.",
        prompt_template |-> "You are Chuck the Clown, always ready with a joke and entertainment. Be upbeat, silly, and include jokes in your responses."],
       [name |-> "Sarcastic Pirate",
        description |-> "A pirate with a sharp tongue and a love for treasure.",
        prompt_template |-> "You are a Sarcastic Pirate, ready to share your tales of adventure. Use pirate slang, be witty, sarcastic, and mention your love for treasure and the sea."],
       [name |-> "Professor Sage",
        description |-> "A wise professor knowledgeable about many subjects.",
        prompt_template |-> "You are Professor Sage, sharing wisdom and knowledge. Be scholarly, thoughtful, and provide educational information in your responses."] >>

(***************************************************************************)
(* The store                                                               *)
(***************************************************************************)
\* A lookup that falls back to the first row when no name matches.
CharacterByName_fallback(tbl, name) ==
    LET hits == {i \in 1..Len(tbl) : tbl[i].name = name}
    IN IF tbl = <<>> THEN None
       ELSE IF hits = {} THEN Some(tbl[1])
       ELSE Some(tbl[CHOOSE i \in hits : \A j \in hits : i <= j])

\* Character.query.filter_by(name=name).first() over table tbl: the first
\* row whose name is exactly `name` (SQLite compares text byte by byte), or None.
CharacterByName(tbl, name) ==
    LET hits == {i \in 1..Len(tbl) : tbl[i].name = name}
    IN IF hits = {} THEN None
       ELSE Some(tbl[CHOOSE i \in hits : \A j \in hits : i <= j])

\* Character.query.get(id)
CharacterById(tbl, id) ==
    LET hits == {i \in 1..Len(tbl) : tbl[i].id = id}
    IN IF hits = {} THEN None ELSE Some(tbl[CHOOSE i \in hits : TRUE])

\* A row with the description and the template in each other's column.
NewCharacter_swapped(tbl, name, description, prompt_template) ==
    [id |-> Len(tbl) + 1, name |-> name, description |-> prompt_template,
     prompt_template |-> description]

\* The row an INSERT into character creates: the primary key is the next rowid.
NewCharacter(tbl, name, description, prompt_template) ==
    [id |-> Len(tbl) + 1, name |-> name, description |-> description,
     prompt_template |-> prompt_template]

\* A column without the unique constraint.
UniqueViolation_none(tbl, name) == FALSE

\* name = db.Column(..., unique=True): an INSERT of a name the table holds
\* raises IntegrityError.
UniqueViolation(tbl, name) == \E i \in 1..Len(tbl) : tbl[i].name = name

\* The rows of S (conversation rows, told apart by id) in every order that
\* ORDER BY conversation.timestamp may return: ascending by timestamp, rows
\* with equal timestamps in any order.
RECURSIVE OrderByTimestamp(_)
OrderByTimestamp(S) ==
    IF S = {} THEN {<<>>}
    ELSE UNION { { <<x>> \o rest : rest \in OrderByTimestamp(S \ {x}) }
                 : x \in {y \in S : \A z \in S : y.timestamp <= z.timestamp} }

Rows(tbl) == {tbl[i] : i \in 1..Len(tbl)}

\* A row with the input and the response in each other's column.
NewConversation_swapped(tbl, character_id, user_input, bot_response, chat_id, user_id, timestamp) ==
    [id |-> Len(tbl) + 1, character_id |-> character_id, user_input |-> bot_response,
     bot_response |-> user_input, timestamp |-> timestamp, chat_id |-> chat_id,
     user_id |-> user_id]

\* A row that points at no character.
NewConversation_orphan(tbl, character_id, user_input, bot_response, chat_id, user_id, timestamp) ==
    [id |-> Len(tbl) + 1, character_id |-> 0, user_input |-> user_input,
     bot_response |-> bot_response, timestamp |-> timestamp, chat_id |-> chat_id,
     user_id |-> user_id]

\* Conversation(...) as db.session.add + commit store it: the primary key is
\* the next rowid and timestamp is the column default, datetime.utcnow().
NewConversation(tbl, character_id, user_input, bot_response, chat_id, user_id, timestamp) ==
    [id |-> Len(tbl) + 1, character_id |-> character_id, user_input |-> user_input,
     bot_response |-> bot_response, timestamp |-> timestamp, chat_id |-> chat_id,
     user_id |-> user_id]

\* user_id = db.Column(db.Integer, nullable=False): the commit of a row
\* without a user id raises IntegrityError.
NotNullViolation(user_id) == user_id = None

(***************************************************************************)
(* The generation endpoint: what requests.post may come back with.         *)
(* kind "raise" is a transport fault (requests raises); otherwise a status *)
(* code and a body: `json` says whether response.json() parses it,         *)
(* has_candidates whether the parsed object has the key 'candidates', and  *)
(* candidates lists them, each <<text>> when ['content']['parts'][0]       *)
(* ['text'] is there and None when it is not.                              *)
(***************************************************************************)
HttpResponse(status, json, has_candidates, candidates, text) ==
    [kind |-> "http", status |-> status, json |-> json,
     has_candidates |-> has_candidates, candidates |-> candidates, text |-> text]

Answer200 == HttpResponse(200, TRUE, TRUE, <<Some("Ahoy!")>>, "{candidates: [Ahoy!]}")
NoCandidatesKey200 == HttpResponse(200, TRUE, FALSE, <<>>, "{}")
NoCandidates200 == HttpResponse(200, TRUE, TRUE, <<>>, "{candidates: []}")
NoContent200 == HttpResponse(200, TRUE, TRUE, <<None>>, "{candidates: [{}]}")
Answer201 == HttpResponse(201, TRUE, TRUE, <<Some("Ahoy!")>>, "{candidates: [Ahoy!]}")
Error500 == HttpResponse(500, TRUE, FALSE, <<>>, "{error: internal}")
BadGateway502 == HttpResponse(502, FALSE, FALSE, <<>>, "<html>Bad Gateway</html>")
TransportFault == [kind |-> "raise"]

Responses ==
    { Answer200, NoCandidatesKey200, NoCandidates200, NoContent200, Answer201,
      Error500, BadGateway502, TransportFault }

\* str(e) of the exceptions the handler catches.
ConnectionErrorText == "Connection refused"
JSONDecodeErrorText == "Expecting value: line 1 column 1 (char 0)"
KeyErrorText == "'content'"
IntegrityErrorText == "NOT NULL constraint failed: conversation.user_id"

(***************************************************************************)
(* chat_with_character                                                     *)
(***************************************************************************)
\* src/Main.py: the prompt holds no earlier turn.
Main_full_prompt(prompt_template, user_input) ==
    prompt_template \o "\nUser: " \o user_input \o "\nBot:"

\* " ".join([f"User: {conv.user_input}\nBot: {conv.bot_response}" for conv in previous])
RECURSIVE context_prompt(_)
context_prompt(previous) ==
    IF previous = <<>> THEN ""
    ELSE LET conv == Head(previous)
             one == "User: " \o conv.user_input \o "\nBot: " \o conv.bot_response
         IN IF Tail(previous) = <<>> THEN one
            ELSE one \o " " \o context_prompt(Tail(previous))

\* src/Main2.py: the prompt holds the user's earlier turns.
Main2_full_prompt(prompt_template, previous, user_input) ==
    prompt_template \o "\n" \o context_prompt(previous) \o "\nUser: " \o user_input \o "\nBot:"

\* A query that forgets the filter on the user.
ConversationsOfUser_all(tbl, user_id) == OrderByTimestamp(Rows(tbl))

\* Conversation.query.filter_by(user_id=user_id).order_by(Conversation.timestamp).all()
ConversationsOfUser(tbl, user_id) ==
    OrderByTimestamp({r \in Rows(tbl) : user_id # None /\ r.user_id = user_id})

\* The prompts the running variant may build (one per order the query may return).
full_prompts(tbl, prompt_template, user_input, user_id) ==
    IF variant = "Main"
    THEN { Main_full_prompt(prompt_template, user_input) }
    ELSE { Main2_full_prompt(prompt_template, previous, user_input) :
             previous \in ConversationsOfUser(tbl, user_id) }

\* A handler without the branch for a body that lacks candidates: it reports
\* such a body the way it reports a failure status.
handle_response_by_status(response) ==
    IF response.kind = "raise"
    THEN <<"return", "An unexpected error occurred: " \o ConnectionErrorText>>
    ELSE IF ~response.json
    THEN <<"return", "An unexpected error occurred: " \o JSONDecodeErrorText>>
    ELSE IF response.status = 200 /\ response.has_candidates /\ Len(response.candidates) > 0
    THEN IF response.candidates[1] = None
         THEN <<"return", "An unexpected error occurred: " \o KeyErrorText>>
         ELSE <<"save", response.candidates[1][1]>>
    ELSE <<"return", "An error occurred while generating content: "
                     \o ToString(response.status) \o " - " \o response.text>>

\* What the handler makes of the endpoint's answer, up to the point where it
\* would store the turn: <<"save", text>> when it goes on to store `text`,
\* and <<"return", text>> when it returns `text` as the response.
handle_response(response) ==
    IF response.kind = "raise"
    THEN <<"return", "An unexpected error occurred: " \o ConnectionErrorText>>
    ELSE IF ~response.json
    THEN <<"return", "An unexpected error occurred: " \o JSONDecodeErrorText>>
    ELSE IF response.status = 200
    THEN IF response.has_candidates /\ Len(response.candidates) > 0
         THEN IF response.candidates[1] = None
              THEN <<"return", "An unexpected error occurred: " \o KeyErrorText>>
              ELSE <<"save", response.candidates[1][1]>>
         ELSE <<"return", "An error occurred while generating content: Unexpected response format.">>
    ELSE <<"return", "An error occurred while generating content: "
                     \o ToString(response.status) \o " - " \o response.text>>

\* A handler that stores the turn whatever the endpoint answered.
persists_always(made, user_id) == ~NotNullViolation(user_id)

\* Whether the handler stores a turn: it reached the insert, and the commit
\* went through.
persists(made, user_id) == made[1] = "save" /\ ~NotNullViolation(user_id)

\* A caller-side id that is thrown away: every call draws a new one.
session_id_fresh(chat_id, n) == Some(uuid4(n + 1))

\* if not chat_id: chat_id = str(uuid.uuid4())
session_id(chat_id, n) == IF Truthy(chat_id) THEN chat_id ELSE Some(uuid4(n + 1))

\* A handler that sends the prompt again when the first answer was no good.
requests_post_retrying(character, made) ==
    IF character = None THEN 0 ELSE IF made[1] = "return" THEN 2 ELSE 1

\* How many times a call runs requests.post: the handler holds one call of
\* it, outside any loop, past the early return for an unknown character;
\* `made` is what the handler makes of the answer, which sends nothing more.
requests_post(character, made) == IF character = None THEN 0 ELSE 1

chat_with_character(character_name, user_input, user_id, chat_id, response) ==
    LET character == CharacterByName(characters, character_name)
        call == [op |-> "chat_with_character", character_name |-> character_name,
                 user_input |-> user_input, user_id |-> user_id, chat_id |-> chat_id]
    IN
    /\ IF character = None
       THEN /\ lastCall' = call @@ [requests |-> requests_post(character, handle_response(response)),
                                        result |-> <<"Character not found.", None>>]
            /\ UNCHANGED <<variant, characters, conversations, now, uuids, workers, seeder>>
       ELSE LET sid == session_id(chat_id, uuids)
                made == handle_response(response)
            IN
            /\ ~Truthy(chat_id) => uuids < MaxUuids
            /\ uuids' = IF Truthy(chat_id) THEN uuids ELSE uuids + 1
            /\ \E full_prompt \in full_prompts(conversations, character[1].prompt_template, user_input, user_id) :
                 LET sent == call @@ [requests |-> requests_post(character, made), full_prompt |-> full_prompt, response |-> response]
                 IN
                 IF persists(made, user_id)
                 THEN /\ now' = utcnow(now)
                      /\ conversations' = Append(conversations,
                            NewConversation(conversations, character[1].id, user_input,
                                            made[2], sid, user_id, now'))
                      /\ lastCall' = sent @@ [result |-> <<made[2], sid>>]
                 ELSE /\ lastCall' = sent @@
                         [result |-> <<IF made[1] = "save"
                                       THEN "An unexpected error occurred: " \o IntegrityErrorText
                                       ELSE made[2], sid>>]
                      /\ UNCHANGED <<conversations, now>>
            /\ UNCHANGED <<variant, characters, workers, seeder>>

(***************************************************************************)
(* add_character and add_predefined_characters                             *)
(***************************************************************************)
UniqueErrorText == "UNIQUE constraint failed: character.name"

\* db.session.add(new_character); db.session.commit() against table tbl, and
\* the string add_character returns: the commit raises when the name is taken
\* (the handler rolls back), and stores the row otherwise.
commit_character(tbl, name, description, prompt_template) ==
    IF UniqueViolation(tbl, name)
    THEN [table |-> tbl,
          result |-> "An error occurred while adding the character: " \o UniqueErrorText]
    ELSE [table |-> Append(tbl, NewCharacter(tbl, name, description, prompt_template)),
          result |-> "Character '" \o name \o "' added successfully!\nDescription: " \o description]

already_exists(name) == "Character '" \o name \o "' already exists!"

\* A check that never finds the name.
name_taken_never(tbl, name) == FALSE

\* if Character.query.filter_by(name=name).first():
name_taken(tbl, name) == CharacterByName(tbl, name) # None

\* add_character run without another writer in between.
add_character(name, description, prompt_template) ==
    LET call == [op |-> "add_character", name |-> name, description |-> description,
                 prompt_template |-> prompt_template]
    IN
    /\ IF name_taken(characters, name)
       THEN /\ lastCall' = call @@ [result |-> already_exists(name)]
            /\ UNCHANGED characters
       ELSE LET done == commit_character(characters, name, description, prompt_template)
            IN /\ characters' = done.table
               /\ lastCall' = call @@ [result |-> done.result]
    /\ UNCHANGED <<variant, current_chat_id, conversations, now, uuids, workers, seeder>>

\* A loop without the existence check: every predefined character is added.
predefined_pending_unchecked(tbl, pending, i) ==
    [k \in 1..Len(PredefinedCharacters) |->
        [id |-> Len(tbl) + k, name |-> PredefinedCharacters[k].name,
         description |-> PredefinedCharacters[k].description,
         prompt_template |-> PredefinedCharacters[k].prompt_template]]

\* The loop of add_predefined_characters from its i-th entry on: `pending` are
\* the rows added to the session so far, which the loop's query sees (autoflush).
RECURSIVE predefined_pending(_, _, _)
predefined_pending(tbl, pending, i) ==
    IF i > Len(PredefinedCharacters) THEN pending
    ELSE LET char_data == PredefinedCharacters[i]
             seen == CharacterByName(tbl \o pending, char_data.name) # None
         IN predefined_pending(tbl,
                IF seen THEN pending
                ELSE Append(pending, NewCharacter(tbl \o pending, char_data.name,
                                char_data.description, char_data.prompt_template)),
                i + 1)

\* db.session.commit() of the session's pending rows: all of them, or, when
\* one of the names is taken, none (rollback).
commit_pending(tbl, pending) ==
    IF \E k \in 1..Len(pending) : UniqueViolation(tbl, pending[k].name)
    THEN [table |-> tbl, result |-> "rolled back"]
    ELSE [table |-> tbl \o [k \in 1..Len(pending) |-> [pending[k] EXCEPT !.id = Len(tbl) + k]],
          result |-> "committed"]

\* A seeding that empties the table and stores the predefined characters anew.
seeded_fresh(tbl) == commit_pending(<<>>, predefined_pending(<<>>, <<>>, 1))

\* add_predefined_characters run without another writer in between.
seeded(tbl) == commit_pending(tbl, predefined_pending(tbl, <<>>, 1))

add_predefined_characters ==
    /\ characters' = seeded(characters).table
    /\ lastCall' = [op |-> "add_predefined_characters", result |-> seeded(characters).result]
    /\ UNCHANGED <<variant, current_chat_id, conversations, now, uuids, workers, seeder>>

\* get_existing_characters: Character.query.all() as (name, description) pairs.
get_existing_characters ==
    /\ lastCall' = [op |-> "get_existing_characters",
                    result |-> [i \in 1..Len(characters) |->
                                  <<characters[i].name, characters[i].description>>]]
    /\ UNCHANGED <<variant, current_chat_id, characters, conversations, now, uuids, workers, seeder>>

(***************************************************************************)
(* The same two writers, step by step: other calls may run between a       *)
(* call's query and its commit.                                            *)
(***************************************************************************)
Idle == [pc |-> "idle"]

\* add_character up to its commit: the existence check, and either the
\* early return or the new row added to the session.
add_character_check(w, name, description, prompt_template) ==
    /\ workers[w] = Idle
    /\ IF name_taken(characters, name)
       THEN /\ lastCall' = [op |-> "add_character", worker |-> w, name |-> name,
                            description |-> description, prompt_template |-> prompt_template,
                            result |-> already_exists(name)]
            /\ UNCHANGED workers
       ELSE /\ workers' = [workers EXCEPT ![w] =
                             [pc |-> "commit", name |-> name, description |-> description,
                              prompt_template |-> prompt_template]]
            /\ lastCall' = [op |-> "add_character", worker |-> w, name |-> name,
                            description |-> description, prompt_template |-> prompt_template,
                            result |-> None]
    /\ UNCHANGED <<variant, current_chat_id, characters, conversations, now, uuids, seeder>>

\* add_character's db.session.commit() and return.
add_character_commit(w) ==
    /\ workers[w].pc = "commit"
    /\ LET done == commit_character(characters, workers[w].name, workers[w].description,
                                    workers[w].prompt_template)
       IN /\ characters' = done.table
          /\ lastCall' = [op |-> "add_character", worker |-> w, name |-> workers[w].name,
                          description |-> workers[w].description,
                          prompt_template |-> workers[w].prompt_template,
                          result |-> Some(done.result)]
    /\ workers' = [workers EXCEPT ![w] = Idle]
    /\ UNCHANGED <<variant, current_chat_id, conversations, now, uuids, seeder>>

\* add_predefined_characters is entered.
add_predefined_start ==
    /\ seeder = Idle
    /\ seeder' = [pc |-> "loop", i |-> 1, pending |-> <<>>]
    /\ lastCall' = [op |-> "add_predefined_characters", result |-> None]
    /\ UNCHANGED <<variant, current_chat_id, characters, conversations, now, uuids, workers>>

\* One round of its loop.  The query first flushes the session (autoflush):
\* when a pending name has been committed by someone else meanwhile, the
\* INSERT raises out of the function and nothing of the session is stored.
add_predefined_loop ==
    /\ seeder.pc = "loop"
    /\ seeder.i <= Len(PredefinedCharacters)
    /\ IF \E k \in 1..Len(seeder.pending) : UniqueViolation(characters, seeder.pending[k].name)
       THEN /\ seeder' = Idle
            /\ lastCall' = [op |-> "add_predefined_characters", result |-> Some("raised")]
       ELSE LET char_data == PredefinedCharacters[seeder.i]
                seen == CharacterByName(characters \o seeder.pending, char_data.name) # None
            IN /\ seeder' = [seeder EXCEPT
                               !.i = @ + 1,
                               !.pending = IF seen THEN @
                                           ELSE Append(@, NewCharacter(characters \o @,
                                                   char_data.name, char_data.description,
                                                   char_data.prompt_template))]
               /\ lastCall' = [op |-> "add_predefined_characters", result |-> None]
    /\ UNCHANGED <<variant, current_chat_id, characters, conversations, now, uuids, workers>>

\* Its db.session.commit(), rolled back when it raises.
add_predefined_commit ==
    /\ seeder.pc = "loop"
    /\ seeder.i > Len(PredefinedCharacters)
    /\ LET done == commit_pending(characters, seeder.pending)
       IN /\ characters' = done.table
          /\ lastCall' = [op |-> "add_predefined_characters", result |-> Some(done.result)]
    /\ seeder' = Idle
    /\ UNCHANGED <<variant, current_chat_id, conversations, now, uuids, workers>>

(***************************************************************************)
(* The history queries of src/Main.py                                      *)
(***************************************************************************)
\* A query that orders by timestamp descending.
ConversationsOfChat_desc(tbl, chat_id) ==
    { [i \in 1..Len(convs) |-> convs[Len(convs) + 1 - i]]
      : convs \in OrderByTimestamp({r \in Rows(tbl) : r.chat_id = chat_id}) }

\* Conversation.query.filter_by(chat_id=chat_id).order_by(Conversation.timestamp).all()
ConversationsOfChat(tbl, chat_id) ==
    OrderByTimestamp({r \in Rows(tbl) : r.chat_id = chat_id})

\* The lines get_chat_history appends for the rows of `convs`, in their order.
RECURSIVE history_lines(_)
history_lines(convs) ==
    IF convs = <<>> THEN ""
    ELSE LET conv == Head(convs)
         IN "[" \o strftime(conv.timestamp) \o "]\n"
            \o "User: " \o conv.user_input \o "\n"
            \o "Bot: " \o conv.bot_response \o "\n\n"
            \o history_lines(Tail(convs))

\* The transcript get_chat_history builds from the query's rows.
chat_history(chars, convs, chat_id) ==
    LET character == CharacterById(chars, convs[1].character_id)
        character_name == IF character # None THEN character[1].name ELSE "Unknown Character"
    IN "Chat History with " \o character_name \o " (ID: " \o chat_id[1] \o "):\n\n"
       \o history_lines(convs)

\* What get_chat_history(chat_id) may return in the store (chars, tbl).
get_chat_history_results(chars, tbl, chat_id) ==
    IF ~Truthy(chat_id) THEN {"No chat ID provided."}
    ELSE { IF convs = <<>> THEN "No chat history found for this ID."
           ELSE chat_history(chars, convs, chat_id)
           : convs \in ConversationsOfChat(tbl, chat_id) }

get_chat_history(chat_id) ==
    /\ variant = "Main"
    /\ \E result \in get_chat_history_results(characters, conversations, chat_id) :
         lastCall' = [op |-> "get_chat_history", chat_id |-> chat_id, result |-> result]
    /\ UNCHANGED <<variant, current_chat_id, characters, conversations, now, uuids, workers, seeder>>

\* The grouped query of get_all_chat_ids: conversation joined to character on
\* character_id, rows with a chat_id, one group per (chat_id, character name).
chat_groups(chars, tbl) ==
    LET joined == { <<r, c>> \in Rows(tbl) \X Rows(chars) :
                      r.character_id = c.id /\ r.chat_id # None }
        keys == { <<j[1].chat_id, j[2].name>> : j \in joined }
        members(k) == { j[1] : j \in { x \in joined : <<x[1].chat_id, x[2].name>> = k } }
    IN { [chat_id |-> k[1][1], character_name |-> k[2],
          start_time |-> CHOOSE t \in {r.timestamp : r \in members(k)} :
                            \A r \in members(k) : t <= r.timestamp,
          message_count |-> Cardinality({r.id : r \in members(k)})] : k \in keys }

\* ORDER BY min(timestamp) DESC over the groups G: groups with equal start
\* times come in any order.
RECURSIVE OrderByStartDesc(_)
OrderByStartDesc(G) ==
    IF G = {} THEN {<<>>}
    ELSE UNION { { <<x>> \o rest : rest \in OrderByStartDesc(G \ {x}) }
                 : x \in {y \in G : \A z \in G : y.start_time >= z.start_time} }

\* The list get_all_chat_ids builds from the query's rows.
chat_list(query) ==
    [i \in 1..Len(query) |-> <<query[i].chat_id, query[i].character_name,
                               strftime(query[i].start_time), query[i].message_count>>]

get_all_chat_ids_results(chars, tbl) ==
    { chat_list(query) : query \in OrderByStartDesc(chat_groups(chars, tbl)) }

get_all_chat_ids ==
    /\ variant = "Main"
    /\ \E result \in get_all_chat_ids_results(characters, conversations) :
         lastCall' = [op |-> "get_all_chat_ids", result |-> result]
    /\ UNCHANGED <<variant, current_chat_id, characters, conversations, now, uuids, workers, seeder>>

(***************************************************************************)
(* Specifications                                                          *)
(***************************************************************************)
\* The store of a fresh database once the program has started: create_all,
\* then add_predefined_characters.
Started ==
    /\ characters = seeded(<<>>).table
    /\ conversations = <<>>
    /\ now = 0
    /\ uuids = 0
    /\ workers = [w \in 1..NumWorkers |-> Idle]
    /\ seeder = Idle
    /\ current_chat_id = None
    /\ lastCall = [op |-> "start"]

\* chat_with_character called with arguments from the given sets, while the
\* conversation table holds at most MaxTurns rows.
Chats(names, inputs, users, chats, responses) ==
    \E character_name \in names, user_input \in inputs, user_id \in users,
       chat_id \in chats, response \in responses :
       /\ chat_with_character(character_name, user_input, user_id, chat_id, response)
       /\ Len(conversations') <= MaxTurns
       /\ UNCHANGED current_chat_id

\* Either program, chatting: every kind of answer of the endpoint, a known
\* and an unknown character, with and without a user id and a chat id.
Init ==
    /\ variant \in {"Main", "Main2"}
    /\ Started

Next ==
    Chats({"Sarcastic Pirate", "Nobody"}, {"hi", "yo"}, {None, Some(1)},
          {None, Some(""), Some("s1")}, Responses)

Spec == Init /\ [][Next]_vars

\* The character table, one call at a time: names that differ in case only,
\* a predefined name, and chats that look the new characters up.
InitStore ==
    /\ variant \in {"Main", "Main2"}
    /\ Started

NextStore ==
    \/ \E name \in {"Zed", "zed", "Sarcastic Pirate"},
          description \in {"The last letter.", "You are Zed."},
          prompt_template \in {"You are Zed.", "You are the last letter."} :
          add_character(name, description, prompt_template)
    \/ add_predefined_characters
    \/ get_existing_characters
    \/ Chats({"Zed", "zed"}, {"hi"}, {Some(1)}, {Some("s1")}, {Answer200, Error500})

SpecStore == InitStore /\ [][NextStore]_vars

\* Writers racing on a fresh database: NumWorkers add_character calls and
\* the seeding of a program that is starting.
InitRace ==
    /\ variant \in {"Main", "Main2"}
    /\ characters = <<>>
    /\ conversations = <<>>
    /\ now = 0
    /\ uuids = 0
    /\ workers = [w \in 1..NumWorkers |-> Idle]
    /\ seeder = Idle
    /\ current_chat_id = None
    /\ lastCall = [op |-> "start"]

NextRace ==
    \/ \E w \in 1..NumWorkers, name \in {"Zed", "Chuck the Clown"},
          description \in {"The last letter.", "Another clown."} :
          add_character_check(w, name, description, "You are Zed.")
    \/ \E w \in 1..NumWorkers : add_character_commit(w)
    \/ add_predefined_start
    \/ add_predefined_loop
    \/ add_predefined_commit

SpecRace == InitRace /\ [][NextRace]_vars

\* src/Main2.py chatting with two users, so that prompts carry earlier turns.
InitMemory ==
    /\ variant = "Main2"
    /\ Started

NextMemory ==
    Chats({"Sarcastic Pirate"}, {"a", "c"}, {Some(1), Some(2)}, {None, Some("s1")},
          {Answer200, Error500})

SpecMemory == InitMemory /\ [][NextMemory]_vars

\* src/Main.py chatting in two sessions with two characters, and its
\* history queries.
InitHistory ==
    /\ variant = "Main"
    /\ Started

NextHistory ==
    \/ Chats({"Sarcastic Pirate", "Professor Sage"}, {"hi", "yo"}, {Some(1)},
             {Some("s1"), Some("s2")},
             {Answer200, Error500})
    \/ \E chat_id \in {None, Some("s1"), Some("s2"), Some("s3")} : get_chat_history(chat_id)
    \/ get_all_chat_ids

SpecHistory == InitHistory /\ [][NextHistory]_vars

(***************************************************************************)
(* The history query of src/Main2.py, and the operations when the store    *)
(* cannot be reached.                                                      *)
(***************************************************************************)
\* src/Main2.py's get_chat_history(user_id): the user's rows, by timestamp.
Main2_get_chat_history(user_id) ==
    /\ variant = "Main2"
    /\ \E convs \in ConversationsOfUser(conversations, user_id) :
         lastCall' = [op |-> "get_chat_history", user_id |-> user_id, result |-> convs]
    /\ UNCHANGED <<variant, current_chat_id, characters, conversations, now, uuids, workers, seeder>>

\* str(e) of the exception the database driver raises when it cannot be reached.
StoreErrorText == "(sqlite3.OperationalError) unable to open database file"

\* How a call ends: with a value handed to its caller, or with an exception
\* that leaves the function.
Returned(value) == [raised |-> FALSE, value |-> value]
Raised(e) == [raised |-> TRUE, value |-> e]

\* The operations the pages call.
ServiceOperations ==
    { "add_character", "get_existing_characters", "chat_with_character",
      "get_chat_history", "get_all_chat_ids" }

\* src/Main2.py's get_chat_history runs its query outside any try: what the
\* query raises leaves the function.
Main2_get_chat_history_on_error(e) == Raised(e)

\* How a call of `operation` ends when the first statement it runs against
\* the store raises e: what its except clause returns.  chat_with_character
\* has not drawn a chat id yet.
on_store_error(operation, chat_id, e) ==
    CASE operation = "add_character" ->
            Returned("An error occurred while adding the character: " \o e)
      [] operation = "get_existing_characters" ->
            Returned(<< <<"Error retrieving characters", e>> >>)
      [] operation = "chat_with_character" ->
            Returned(<<"An unexpected error occurred: " \o e, chat_id>>)
      [] operation = "get_chat_history" ->
            IF variant = "Main"
            THEN Returned("Error retrieving chat history: " \o e)
            ELSE Main2_get_chat_history_on_error(e)
      [] operation = "get_all_chat_ids" ->
            Returned(<< <<"Error", "Error retrieving chats", e, "">> >>)

\* A call of `operation` that finds the store out of reach.
store_error(operation, chat_id) ==
    /\ operation = "get_all_chat_ids" => variant = "Main"
    /\ lastCall' = [op |-> operation, chat_id |-> chat_id,
                    outcome |-> on_store_error(operation, chat_id, StoreErrorText)]
    /\ UNCHANGED <<variant, current_chat_id, characters, conversations, now, uuids, workers, seeder>>

\* Either program with all its operations, one call at a time, with a store
\* and an endpoint that may fail.
InitService ==
    /\ variant \in {"Main", "Main2"}
    /\ Started

NextService ==
    \/ \E name \in {"Zed", "Sarcastic Pirate"} :
          add_character(name, "The last letter.", "You are Zed.")
    \/ add_predefined_characters
    \/ get_existing_characters
    \/ Chats({"Zed", "Sarcastic Pirate"}, {"hi"}, {Some(1)}, {None, Some("s1")},
             {Answer200, Error500, TransportFault})
    \/ \E chat_id \in {None, Some("s1")} : get_chat_history(chat_id)
    \/ get_all_chat_ids
    \/ \E user_id \in {None, Some(1)} : Main2_get_chat_history(user_id)
    \/ \E operation \in ServiceOperations, chat_id \in {None, Some("s1")} :
          store_error(operation, chat_id)

SpecService == InitService /\ [][NextService]_vars

\* A 200 whose candidate's text is the empty string.
EmptyAnswer200 == HttpResponse(200, TRUE, TRUE, <<Some("")>>, "{candidates: [(empty)]}")

\* Either program given what an empty form field and a silent endpoint give
\* it: empty strings.
InitBlank ==
    /\ variant \in {"Main", "Main2"}
    /\ Started

NextBlank ==
    \/ \E name \in {"", "Zed"}, description \in {"", "The last letter."},
          prompt_template \in {"", "You are Zed."} :
          add_character(name, description, prompt_template)
    \/ get_existing_characters
    \/ Chats({"", "Zed"}, {"", "hi"}, {Some(1)}, {Some("s1")}, {Answer200, EmptyAnswer200})

SpecBlank == InitBlank /\ [][NextBlank]_vars

\* The seeding over whatever character table the database file holds when
\* the program runs it: a new file, or one with characters of earlier runs,
\* which may carry a predefined name with a description of their own.
InitSeed == InitRace

NextSeed ==
    \/ \E name \in {"Chuck the Clown", "Professor Sage", "Zed"},
          description \in {"Another clown.", "The last letter."} :
          add_character(name, description, "You are Zed.")
    \/ add_predefined_characters
    \/ get_existing_characters

SpecSeed == InitSeed /\ [][NextSeed]_vars

(***************************************************************************)
(* The chat page of src/Main.py: the Send and Start New Chat buttons and   *)
(* the chat id the page holds between them.                                *)
(***************************************************************************)
\* handle_chat(character_name, message, user_id, chat_id) with chat_id the
\* page's current_chat_id; its second and third results go to
\* current_chat_id and to the chat id display.  character_name is the
\* dropdown's value: None when nothing is selected.
handle_chat(character_name, message, user_id, response) ==
    IF ~Truthy(character_name)
    THEN /\ lastCall' = [op |-> "handle_chat", character_name |-> character_name,
                         chat_id |-> current_chat_id,
                         result |-> <<"Please select a character first.",
                                      current_chat_id, current_chat_id>>]
         /\ UNCHANGED <<variant, current_chat_id, characters, conversations, now, uuids,
                        workers, seeder>>
    ELSE /\ chat_with_character(character_name[1], message, user_id, current_chat_id, response)
         /\ Len(conversations') <= MaxTurns
         /\ current_chat_id' = lastCall'.result[2]

\* start_new_chat: a new uuid for current_chat_id and the display.
start_new_chat ==
    /\ uuids < MaxUuids
    /\ uuids' = uuids + 1
    /\ current_chat_id' = Some(uuid4(uuids + 1))
    /\ lastCall' = [op |-> "start_new_chat",
                    result |-> <<Some(uuid4(uuids + 1)), Some(uuid4(uuids + 1))>>]
    /\ UNCHANGED <<variant, characters, conversations, now, workers, seeder>>

\* The chat page of src/Main.py: the dropdown offers the stored characters.
InitUI ==
    /\ variant = "Main"
    /\ Started

NextUI ==
    \/ \E character_name \in {None, Some("Sarcastic Pirate"), Some("Professor Sage")},
          message \in {"hi", "yo"}, response \in {Answer200, Error500, TransportFault} :
          handle_chat(character_name, message, Some(1), response)
    \/ start_new_chat

SpecUI == InitUI /\ [][NextUI]_vars

(***************************************************************************)
(* Vocabulary of the properties.  These definitions say what the claims    *)
(* mean, in terms of the tables and of what the calls were given and       *)
(* returned.                                                               *)
(***************************************************************************)
\* The step just taken was a call of chat_with_character.
ChatStep == lastCall'.op = "chat_with_character"

\* The stored character called `name`, when there is one.
Stored(name) == {c \in Rows(characters) : c.name = name}

\* A session id was supplied: a non-empty string (an empty one is no id).
Supplied(chat_id) == chat_id # None /\ chat_id[1] # ""

\* sid is an id made for this call: non-empty, not the supplied one and
\* carried by no turn stored before the call.
NewlyGenerated(sid, chat_id) ==
    /\ sid # None /\ sid[1] # ""
    /\ sid # chat_id
    /\ \A r \in Rows(conversations) : r.chat_id # sid

SessionOf(sid, chat_id) ==
    IF Supplied(chat_id) THEN sid = chat_id ELSE NewlyGenerated(sid, chat_id)

\* The endpoint answered 200 with a first candidate that has text.
AnswersWithText(response) ==
    /\ response.kind = "http" /\ response.status = 200 /\ response.json
    /\ response.has_candidates /\ Len(response.candidates) > 0
    /\ response.candidates[1] # None

\* The generation failed in one of the three ways the service names: a
\* transport fault, a status outside 2xx, a 2xx answer without any candidate.
GenerationFailed(response) ==
    \/ response.kind = "raise"
    \/ response.kind = "http" /\ (response.status < 200 \/ response.status > 299)
    \/ /\ response.kind = "http" /\ response.status >= 200 /\ response.status <= 299
       /\ response.json
       /\ (~response.has_candidates \/ Len(response.candidates) = 0)

\* The texts the service returns for a failed generation.
ErrorTexts ==
    { "An error occurred while generating content: Unexpected response format." }
    \cup { "An error occurred while generating content: " \o ToString(r.status) \o " - " \o r.text
           : r \in {x \in Responses : x.kind = "http"} }
    \cup { "An unexpected error occurred: " \o e
           : e \in {ConnectionErrorText, JSONDecodeErrorText, KeyErrorText, IntegrityErrorText} }

CandidateTexts ==
    { r.candidates[1][1] : r \in {x \in Responses : x.kind = "http" /\ Len(x.candidates) > 0
                                                     /\ x.candidates[1] # None} }

\* The step just taken was a call of add_character.
AddStep == lastCall'.op = "add_character"

\* What the stored characters called `name` hold.
Found(tbl, name) ==
    { <<c.description, c.prompt_template>> : c \in {x \in Rows(tbl) : x.name = name} }

\* The stored turns of a user.
TurnsOfUser(user_id) == {r \in Rows(conversations) : r.user_id = user_id}

\* The turns of P by ascending timestamp.
Ascending(P) ==
    CHOOSE f \in [1..Cardinality(P) -> P] :
        \A i, j \in 1..Cardinality(P) : i < j => f[i].timestamp < f[j].timestamp

RECURSIVE JoinedFrom(_, _, _)
JoinedFrom(f, i, n) ==
    LET one == "User: " \o f[i].user_input \o "\nBot: " \o f[i].bot_response
    IN IF i = n THEN one ELSE one \o " " \o JoinedFrom(f, i + 1, n)

\* The stored turns of a session, in the order they were stored.
TurnsOfChat(chat_id) == SelectSeq(conversations, LAMBDA r : r.chat_id = chat_id)

\* The session ids the conversation table holds.
SessionIds == { r.chat_id[1] : r \in {x \in Rows(conversations) : x.chat_id # None} }

(***************************************************************************)
(* C1.  A chat with a stored character, a user id and an endpoint that     *)
(* answers 200 with candidate text t returns (t, sid) and appends exactly  *)
(* one turn, leaving the earlier turns as they were; the new turn carries  *)
(* t, the given input, the given user id, sid and the id of the character  *)
(* of that name; sid is the supplied session id when a non-empty one was   *)
(* supplied and a newly generated one otherwise.                           *)
(***************************************************************************)
C1_ChatSuccess ==
    [][ ( /\ ChatStep
          /\ Stored(lastCall'.character_name) # {}
          /\ lastCall'.user_id # None
          /\ AnswersWithText(lastCall'.response) )
        => LET t == lastCall'.response.candidates[1][1]
               sid == lastCall'.result[2]
               n == Len(conversations)
           IN /\ lastCall'.result[1] = t
              /\ SessionOf(sid, lastCall'.chat_id)
              /\ Len(conversations') = n + 1
              /\ SubSeq(conversations', 1, n) = conversations
              /\ conversations'[n + 1].bot_response = t
              /\ conversations'[n + 1].user_input = lastCall'.user_input
              /\ conversations'[n + 1].user_id = lastCall'.user_id
              /\ conversations'[n + 1].chat_id = sid
              /\ \E c \in Stored(lastCall'.character_name) :
                    conversations'[n + 1].character_id = c.id
      ]_vars

\* A successful chat that drew its own session id, made in a store that
\* already held a turn.
C1_Witness ==
    /\ lastCall.op = "chat_with_character"
    /\ lastCall.chat_id = None
    /\ lastCall.user_id = Some(1)
    /\ lastCall.result[1] = "Ahoy!"
    /\ Len(conversations) = 2
    /\ conversations[2].chat_id = lastCall.result[2]
    /\ conversations[1].chat_id = Some("s1")

(***************************************************************************)
(* C2.  A chat whose generation fails (transport fault, status outside     *)
(* 2xx, 2xx without a candidate) stores nothing: the conversation table is *)
(* the one before the call; it returns an error text, not a candidate's    *)
(* text, with the supplied session id or, without one, a new one.          *)
(***************************************************************************)
C2_FailedGenerationStoresNothing ==
    [][ ( /\ ChatStep
          /\ Stored(lastCall'.character_name) # {}
          /\ GenerationFailed(lastCall'.response) )
        => /\ conversations' = conversations
           /\ lastCall'.result[1] \in ErrorTexts
           /\ lastCall'.result[1] \notin CandidateTexts
           /\ SessionOf(lastCall'.result[2], lastCall'.chat_id)
      ]_vars

\* A chat that met a 500 in a store that holds a turn, and kept the caller's
\* session id.
C2_Witness ==
    /\ lastCall.op = "chat_with_character"
    /\ lastCall.requests = 1
    /\ lastCall.response.kind = "http" /\ lastCall.response.status = 500
    /\ lastCall.result[2] = Some("s1")
    /\ Len(conversations) = 1

(***************************************************************************)
(* C3.  A chat with a name no stored character has returns the text        *)
(* "Character not found." (with no session id) and leaves the conversation *)
(* table as it was.                                                        *)
(***************************************************************************)
C3_UnknownCharacter ==
    [][ (ChatStep /\ Stored(lastCall'.character_name) = {})
        => /\ lastCall'.result = <<"Character not found.", None>>
           /\ conversations' = conversations
      ]_vars

\* The unknown name was asked for while the store held a turn.
C3_Witness ==
    /\ lastCall.op = "chat_with_character"
    /\ lastCall.character_name = "Nobody"
    /\ lastCall.result[1] = "Character not found."
    /\ Len(conversations) = 1

(***************************************************************************)
(* C4.  add_character with a name some stored character has, letter for    *)
(* letter, returns "Character '<name>' already exists!" and writes nothing:*)
(* the character table, the existing row's description and template        *)
(* included, is the one before the call.                                   *)
(***************************************************************************)
C4_DuplicateNameRejected ==
    [][ (AddStep /\ Stored(lastCall'.name) # {})
        => /\ lastCall'.result = "Character '" \o lastCall'.name \o "' already exists!"
           /\ characters' = characters
      ]_vars

\* "Zed" was offered again with another description and template, and the
\* stored row kept its own.
C4_Witness ==
    /\ lastCall.op = "add_character"
    /\ lastCall.name = "Zed"
    /\ lastCall.result = "Character 'Zed' already exists!"
    /\ \E c \in Rows(characters) :
          /\ c.name = "Zed"
          /\ c.description # lastCall.description
          /\ c.prompt_template # lastCall.prompt_template

(***************************************************************************)
(* C5.  No two stored characters share a name, whatever the interleaving   *)
(* of concurrent add_character and add_predefined_characters calls.        *)
(***************************************************************************)
C5_NamesUnique ==
    \A i, j \in 1..Len(characters) :
        characters[i].name = characters[j].name => i = j

\* Two calls for the same name both passed the existence check; one has
\* committed and the other is about to.
C5_Witness ==
    /\ workers[1].pc = "commit"
    /\ workers[1].name = "Chuck the Clown"
    /\ lastCall.op = "add_character"
    /\ lastCall.worker = 2
    /\ lastCall.name = "Chuck the Clown"
    /\ lastCall.result # None
    /\ \E c \in Rows(characters) : c.name = "Chuck the Clown"
    /\ seeder.pc = "loop"

(***************************************************************************)
(* C6.  When add_character succeeds for a name that was not stored, the    *)
(* characters of that name are then exactly one, with the description and  *)
(* the template that were passed; and what a lookup by a stored name finds *)
(* is the same after every later step.                                     *)
(***************************************************************************)
C6_AddedCharacterIsFound ==
    [][ /\ ( /\ AddStep
             /\ Stored(lastCall'.name) = {}
             /\ lastCall'.result = "Character '" \o lastCall'.name
                      \o "' added successfully!\nDescription: " \o lastCall'.description )
           => Found(characters', lastCall'.name)
                 = { <<lastCall'.description, lastCall'.prompt_template>> }
        /\ \A c \in Rows(characters) : Found(characters', c.name) = Found(characters, c.name)
      ]_vars

\* "zed" was added beside "Zed", and a chat has since been stored with it.
C6_Witness ==
    /\ Found(characters, "Zed") = { <<"The last letter.", "You are Zed.">> }
    /\ Found(characters, "zed") = { <<"You are Zed.", "You are the last letter.">> }
    /\ lastCall.op = "chat_with_character"
    /\ lastCall.character_name = "zed"
    /\ lastCall.result[1] = "Ahoy!"

(***************************************************************************)
(* C7.  With no prior turns to fold in (src/Main.py always; src/Main2.py   *)
(* for a user without stored turns) the prompt sent to the endpoint is     *)
(* exactly promptTemplate + "\n" + "User: " + userInput + "\nBot:".        *)
(***************************************************************************)
C7_PromptWithoutPriorTurns ==
    [][ ( /\ ChatStep
          /\ Stored(lastCall'.character_name) # {}
          /\ \/ variant = "Main"
             \/ \A r \in Rows(conversations) : r.user_id # lastCall'.user_id )
        => \E c \in Stored(lastCall'.character_name) :
              lastCall'.full_prompt =
                 c.prompt_template \o "\n" \o "User: " \o lastCall'.user_input \o "\nBot:"
      ]_vars

(***************************************************************************)
(* C8.  In src/Main2.py, for a user with stored turns, the prompt is the   *)
(* template, "\n", the user's stored turns (all of them and no one else's) *)
(* each as "User: {userInput}\nBot: {botResponse}", by ascending timestamp *)
(* and joined by one space, then "\nUser: {new input}\nBot:".              *)
(***************************************************************************)
C8_PromptWithPriorTurns ==
    [][ ( /\ ChatStep
          /\ variant = "Main2"
          /\ Stored(lastCall'.character_name) # {}
          /\ TurnsOfUser(lastCall'.user_id) # {} )
        => LET P == TurnsOfUser(lastCall'.user_id)
           IN \E c \in Stored(lastCall'.character_name) :
                 lastCall'.full_prompt =
                    c.prompt_template \o "\n" \o JoinedFrom(Ascending(P), 1, Cardinality(P))
                    \o "\nUser: " \o lastCall'.user_input \o "\nBot:"
      ]_vars

\* User 1 asked a third time, with "a" and then "c" stored.
C8_Witness ==
    /\ lastCall.op = "chat_with_character"
    /\ lastCall.user_id = Some(1)
    /\ lastCall.requests = 1
    /\ Len(conversations) = 2
    /\ lastCall.response = Error500
    /\ conversations[1].user_id = Some(1) /\ conversations[1].user_input = "a"
    /\ conversations[2].user_id = Some(1) /\ conversations[2].user_input = "c"

(***************************************************************************)
(* C9.  A successful chat made with an explicit session id stores its turn *)
(* under that id, after the turns stored before; and get_chat_history of a *)
(* session with turns renders all of them, by ascending timestamp, which   *)
(* is the order in which they were stored.                                 *)
(***************************************************************************)
C9_SessionHistoryInOrder ==
    [][ /\ ( /\ ChatStep
             /\ Stored(lastCall'.character_name) # {}
             /\ lastCall'.user_id # None
             /\ AnswersWithText(lastCall'.response)
             /\ Supplied(lastCall'.chat_id) )
           => /\ conversations' # conversations
              /\ SubSeq(conversations', 1, Len(conversations)) = conversations
              /\ conversations'[Len(conversations')].chat_id = lastCall'.chat_id
        /\ ( /\ lastCall'.op = "get_chat_history"
             /\ Supplied(lastCall'.chat_id)
             /\ TurnsOfChat(lastCall'.chat_id) # <<>> )
           => LET turns == TurnsOfChat(lastCall'.chat_id)
              IN /\ \A i, j \in 1..Len(turns) : i < j => turns[i].timestamp < turns[j].timestamp
                 /\ lastCall'.result = chat_history(characters, turns, lastCall'.chat_id)
      ]_vars

\* The transcript of session s1 after two chats in it, "hi" and then "yo",
\* with different characters.
C9_Witness ==
    /\ lastCall.op = "get_chat_history"
    /\ lastCall.chat_id = Some("s1")
    /\ Len(conversations) = 2
    /\ conversations[1].chat_id = Some("s1") /\ conversations[1].user_input = "hi"
    /\ conversations[2].chat_id = Some("s1") /\ conversations[2].user_input = "yo"
    /\ lastCall.result # "No chat history found for this ID."

(***************************************************************************)
(* C10.  get_all_chat_ids returns exactly one row per session id in the    *)
(* conversation table, with the number of the session's turns and the      *)
(* earliest of their timestamps, also when the session's turns were        *)
(* exchanged with different characters.                                    *)
(***************************************************************************)
C10_OneRowPerSession ==
    [][ lastCall'.op = "get_all_chat_ids"
        => /\ Len(lastCall'.result) = Cardinality(SessionIds)
           /\ \A id \in SessionIds :
                 LET turns == {r \in Rows(conversations) : r.chat_id = Some(id)}
                 IN \E k \in 1..Len(lastCall'.result) :
                       /\ lastCall'.result[k][1] = id
                       /\ lastCall'.result[k][4] = Cardinality(turns)
                       /\ \E r \in turns :
                             /\ \A q \in turns : r.timestamp <= q.timestamp
                             /\ lastCall'.result[k][3] = strftime(r.timestamp)
      ]_vars

\* The endpoint answered with a status in 200..299 and a first candidate
\* that has text.
SuccessWithText(response) ==
    /\ response.kind = "http" /\ response.status >= 200 /\ response.status <= 299
    /\ response.json
    /\ response.has_candidates /\ Len(response.candidates) > 0
    /\ response.candidates[1] # None

\* The endpoint answered 200 with a body that parses and holds no candidate:
\* the key is missing or the list is empty.
SuccessWithoutCandidate(response) ==
    /\ response.kind = "http" /\ response.status = 200 /\ response.json
    /\ (~response.has_candidates \/ Len(response.candidates) = 0)

UnexpectedFormatText == "An error occurred while generating content: Unexpected response format."

(***************************************************************************)
(* C11.  For every 2xx status whose body holds a candidate with text, the  *)
(* chat returns that candidate's text and stores it as the bot response of *)
(* the new turn.                                                           *)
(***************************************************************************)
C11_AnySuccessStatusReturnsText ==
    [][ ( /\ ChatStep
          /\ Stored(lastCall'.character_name) # {}
          /\ lastCall'.user_id # None
          /\ SuccessWithText(lastCall'.response) )
        => /\ lastCall'.result[1] = lastCall'.response.candidates[1][1]
           /\ Len(conversations') = Len(conversations) + 1
           /\ conversations'[Len(conversations')].bot_response
                 = lastCall'.response.candidates[1][1]
      ]_vars

(***************************************************************************)
(* C12.  A chat returns the "Unexpected response format" text exactly when *)
(* the endpoint answered 200 (the status the handler takes for success)    *)
(* with a body without any candidate: no other status, and no transport    *)
(* fault, ends in that text.  A status the handler takes for a failure,    *)
(* with a body that parses, ends in a text carrying the status code and    *)
(* the body.                                                               *)
(***************************************************************************)
C12_UnexpectedFormatIsDistinct ==
    [][ (ChatStep /\ Stored(lastCall'.character_name) # {})
        => LET response == lastCall'.response
               text == lastCall'.result[1]
           IN /\ (text = UnexpectedFormatText) <=> SuccessWithoutCandidate(response)
              /\ (response.kind = "http" /\ response.status # 200 /\ response.json)
                    => text = "An error occurred while generating content: "
                                 \o ToString(response.status) \o " - " \o response.text
              /\ response.kind = "raise"
                    => text = "An unexpected error occurred: " \o ConnectionErrorText
      ]_vars

\* A 200 whose body has the key 'candidates' with an empty list, answered to
\* a call without a chat id of its own in a store that holds a turn.
C12_Witness ==
    /\ lastCall.op = "chat_with_character"
    /\ lastCall.requests = 1
    /\ lastCall.response = NoCandidates200
    /\ lastCall.result[1] = UnexpectedFormatText
    /\ lastCall.chat_id = None
    /\ Len(conversations) = 1

(***************************************************************************)
(* C13.  A call of chat_with_character sends exactly one request to the    *)
(* endpoint when the character resolves and none when it does not,         *)
(* whatever the request came back with.                                    *)
(***************************************************************************)
C13_OneRequestPerCall ==
    [][ ChatStep
        => lastCall'.requests = IF Stored(lastCall'.character_name) = {} THEN 0 ELSE 1
      ]_vars

\* A call whose one request came back 200 with a candidate without content,
\* so that the handler raised on it.
C13_Witness ==
    /\ lastCall.op = "chat_with_character"
    /\ lastCall.requests = 1
    /\ lastCall.response = NoContent200
    /\ lastCall.result[1] = "An unexpected error occurred: " \o KeyErrorText

\* The call recorded in `call` ended with a value for its caller.
ReturnsToCaller(call) ==
    IF "outcome" \in DOMAIN call THEN ~call.outcome.raised ELSE "result" \in DOMAIN call

(***************************************************************************)
(* C14.  Every operation the pages call (add_character,                    *)
(* get_existing_characters, chat_with_character, get_chat_history by       *)
(* session and by user, get_all_chat_ids) returns a value to its caller    *)
(* also when the store or the endpoint fails: no exception leaves it.      *)
(***************************************************************************)
C14_EveryOperationReturns ==
    lastCall.op \in ServiceOperations => ReturnsToCaller(lastCall)

\* Table t holds the rows of table s, each at its place and unchanged.
KeepsRows(s, t) == Len(s) <= Len(t) /\ SubSeq(t, 1, Len(s)) = s

(***************************************************************************)
(* C15.  The tables are append-only: whatever operation runs (adding a     *)
(* character, a chat, the history queries, the session listing, the        *)
(* seeding, with or without a fault), every stored turn and every stored   *)
(* character is still stored afterwards, with all its fields unchanged.    *)
(***************************************************************************)
C15_AppendOnly ==
    [][ /\ KeepsRows(conversations, conversations')
        /\ KeepsRows(characters, characters')
      ]_vars

\* The seeding ran again over a table that holds "Zed" and beside two turns.
C15_Witness ==
    /\ lastCall.op = "add_predefined_characters"
    /\ Len(characters) = Len(PredefinedCharacters) + 1
    /\ characters[Len(characters)].name = "Zed"
    /\ Len(conversations) = 2

(***************************************************************************)
(* C16.  In every reachable state the character_id of every stored turn is *)
(* the id of a stored character.                                           *)
(***************************************************************************)
C16_TurnsReferenceCharacters ==
    \A r \in Rows(conversations) : \E c \in Rows(characters) : c.id = r.character_id

\* A turn with "Zed", a character added after the start, is stored, and the
\* sessions have been listed since.
C16_Witness ==
    /\ \E r \in Rows(conversations), c \in Rows(characters) :
          c.name = "Zed" /\ r.character_id = c.id
    /\ lastCall.op = "get_all_chat_ids"
    /\ Len(lastCall.result) > 0

(***************************************************************************)
(* C17.  In every reachable state every stored character has a non-empty   *)
(* name, a non-empty description and a non-empty prompt template, and      *)
(* every stored turn has a non-empty bot response, whatever add_character  *)
(* was given and whatever text the endpoint returned.                      *)
(***************************************************************************)
C17_NothingStoredIsEmpty ==
    /\ \A c \in Rows(characters) :
          c.name # "" /\ c.description # "" /\ c.prompt_template # ""
    /\ \A r \in Rows(conversations) : r.bot_response # ""

\* The step just taken was the commit and return of worker w's add_character.
Commits(w) == workers[w].pc = "commit" /\ workers'[w] = Idle

(***************************************************************************)
(* C18.  add_character's check and insert act as one unit: when a call     *)
(* that found its name free comes to its commit, then, whatever ran in     *)
(* between, exactly one character of that name is stored afterwards, and   *)
(* the call returns the success message when the name was still free and   *)
(* the "already exists" message when another call stored it meanwhile.     *)
(***************************************************************************)
C18_CheckAndInsertActAsOne ==
    [][ \A w \in 1..NumWorkers :
          Commits(w)
          => LET name == workers[w].name
             IN /\ Cardinality({c \in Rows(characters') : c.name = name}) = 1
                /\ lastCall'.result =
                      IF Stored(name) = {}
                      THEN Some("Character '" \o name \o "' added successfully!\nDescription: "
                                \o workers[w].description)
                      ELSE Some("Character '" \o name \o "' already exists!")
      ]_vars

\* The step just taken was a run of add_predefined_characters.
SeedStep == lastCall'.op = "add_predefined_characters"

\* The predefined names.
PredefinedNames == { PredefinedCharacters[k].name : k \in 1..Len(PredefinedCharacters) }

(***************************************************************************)
(* C19.  add_predefined_characters is idempotent and non-destructive: from *)
(* any character table, a run leaves exactly one character for each of the *)
(* three predefined names, keeps every row that was there (one that        *)
(* carries a predefined name included) as it was, adds nothing but the     *)
(* predefined characters whose names were missing, and so changes nothing  *)
(* when it runs again; it leaves the turns alone.                          *)
(***************************************************************************)
C19_SeedingIsIdempotent ==
    [][ SeedStep
        => /\ \A name \in PredefinedNames :
                 Cardinality({i \in 1..Len(characters') : characters'[i].name = name}) = 1
           /\ KeepsRows(characters, characters')
           /\ \A i \in (Len(characters) + 1)..Len(characters') :
                 /\ Stored(characters'[i].name) = {}
                 /\ \E k \in 1..Len(PredefinedCharacters) :
                       /\ characters'[i].name = PredefinedCharacters[k].name
                       /\ characters'[i].description = PredefinedCharacters[k].description
                       /\ characters'[i].prompt_template = PredefinedCharacters[k].prompt_template
           /\ (\A name \in PredefinedNames : Stored(name) # {}) => characters' = characters
           /\ conversations' = conversations
      ]_vars

\* The seeding ran over a table whose first row was a "Chuck the Clown" with
\* a description of its own and whose second was "Zed": it added the two
\* characters that were missing and left those rows alone.
C19_Witness ==
    /\ lastCall.op = "add_predefined_characters"
    /\ Len(characters) = 4
    /\ characters[1].name = "Chuck the Clown" /\ characters[1].description = "Another clown."
    /\ characters[2].name = "Zed"
    /\ characters[3].name = "Sarcastic Pirate"
    /\ characters[4].name = "Professor Sage"

(***************************************************************************)
(* C20.  On the chat page of src/Main.py the chat id is stable across      *)
(* sends: a Send with a selected character is issued with the id the page  *)
(* holds and leaves the page holding a non-empty id, the same one when it  *)
(* held one already, whether or not the endpoint failed; a turn the Send   *)
(* stores carries that id; and only Start New Chat replaces an id the page *)
(* holds, by one that no stored turn carries.                              *)
(***************************************************************************)
C20_ChatIdStableAcrossSends ==
    [][ /\ ChatStep
           => /\ lastCall'.chat_id = current_chat_id
              /\ Truthy(current_chat_id')
              /\ Truthy(current_chat_id) => current_chat_id' = current_chat_id
              /\ conversations' # conversations
                    => conversations'[Len(conversations')].chat_id = current_chat_id'
        /\ (Truthy(current_chat_id) /\ current_chat_id' # current_chat_id)
           => lastCall'.op = "start_new_chat"
        /\ lastCall'.op = "start_new_chat"
           => /\ Truthy(current_chat_id')
              /\ current_chat_id' # current_chat_id
              /\ \A r \in Rows(conversations') : r.chat_id # current_chat_id'
      ]_vars

\* Three sends without a Start New Chat: two stored a turn, with different
\* characters, and the last met a 500; the page holds the id the first drew,
\* and both turns carry it.
C20_Witness ==
    /\ lastCall.op = "chat_with_character"
    /\ lastCall.response = Error500
    /\ uuids = 1
    /\ current_chat_id = Some(uuid4(1))
    /\ lastCall.result[2] = current_chat_id
    /\ Len(conversations) = 2
    /\ conversations[1].chat_id = current_chat_id
    /\ conversations[2].chat_id = current_chat_id
    /\ conversations[1].character_id # conversations[2].character_id

====
